---- MODULE Spec2Model ----
(***************************************************************************)
(* Model of src/main.py: one run of the synchronisation script.  The run   *)
(* resolves the document id and the table id by name, extracts the rows    *)
(* from the database, purges the remote table in batches of 50 ids and     *)
(* inserts the extracted rows in batches of 10 with a bounded retry on     *)
(* HTTP 429.  Every HTTP request is one step; the remote table is part of  *)
(* the state.  Every request is answered by an HTTP response (status and   *)
(* body); transport exceptions are outside the model.                      *)
(***************************************************************************)
EXTENDS Integers, Sequences, FiniteSets, TLC

VARIABLES
    pc,           \* position of the run in __main__ (lines 156-169)
    doc_id,       \* doc_id of __main__ (line 160)
    table_id,     \* table_id of __main__ (line 161)
    filas_dicts,  \* filas_dicts of __main__ (line 166)
    ids,          \* ids of eliminar_todas_las_filas (line 117)
    i,            \* loop variable i of the batch loop in progress (lines 119, 136)
    intento,      \* loop variable intento (line 140)
    r,            \* the last HTTP response received (r, lines 90, 102, 114, 121, 141)
    remote,       \* rows of the remote table, in table order
    nextId,       \* next row id the remote service hands out
    clock,        \* total time slept by time.sleep (line 149)
    error,        \* the uncaught exception that ended the run, if any
    log,          \* history of the requests issued and the sleeps performed by the run
    other,        \* the locals of a second run of the script, while this one executes
    db,           \* content of the database tables obras, proyectos, responsables
    df_obras,     \* df_obras of __main__ (line 163), the result of the query
    fila_df,      \* one row of df_obras (row of line 166)
    celdas,       \* serializar_fila of that row: the cells sent for it
    paso          \* position of the extraction and of the serialization taken alone

\* variables the run of __main__ modelled step by step does not touch
aux == <<other, db, df_obras, fila_df, celdas, paso>>

vars == <<pc, doc_id, table_id, filas_dicts, ids, i, intento, r,
          remote, nextId, clock, error, log, aux>>

----------------------------------------------------------------------------
(* Bounds of the model *)

MaxOldRows == 120      \* largest number of rows in the remote table before the run
MaxNewRows == 25       \* largest number of rows the extraction returns
MaxItems == 2          \* longest listing of documents or of tables

(* Program constants *)

delete_batch == 50     \* range(0, len(ids), 50), ids[i:i+50]
batch_size_mitad == 10 \div 2
batch_size == 10       \* batch_size=10
max_reintentos_mas == 5 + 1
max_reintentos == 5    \* max_reintentos=5

Min(a, b) == IF a < b THEN a ELSE b

RECURSIVE Pow2(_)
Pow2(n) == IF n = 0 THEN 1 ELSE 2 * Pow2(n - 1)

----------------------------------------------------------------------------
(* Values of a row: strings (sequences of character codes), numbers and    *)
(* dates, or NULL (None / NaN / NaT).                                      *)

Str(s) == [kind |-> "str", v |-> s]
Num(n) == [kind |-> "num", v |-> <<n>>]
Fecha(y, m, d) == [kind |-> "date", v |-> <<y, m, d>>]
NULL == [kind |-> "null", v |-> <<>>]

Digito(n) == 48 + n
Guion == 45

\* val.strftime("%Y-%m-%d")
Strftime(val) ==
    LET y == val.v[1]
        m == val.v[2]
        d == val.v[3]
    IN  Str(<< Digito((y \div 1000) % 10), Digito((y \div 100) % 10),
               Digito((y \div 10) % 10), Digito(y % 10), Guion,
               Digito((m \div 10) % 10), Digito(m % 10), Guion,
               Digito((d \div 10) % 10), Digito(d % 10) >>)

\* one cell of serializar_fila: item is a <<column, value>> pair of fila.items()
Celda(item) ==
    [column |-> item[1],
     value  |-> IF item[2].kind = "date" THEN Strftime(item[2]) ELSE item[2]]

\* serializar_fila(fila): one cell per item of the dict, in the dict's order
serializar_fila(fila) == [k \in 1..Len(fila) |-> Celda(fila[k])]

\* row.dropna().to_dict(): the items of the row whose value is not NULL
DropNaNada(row) == row
RECURSIVE DropNa(_)
DropNa(row) ==
    IF row = <<>> THEN <<>>
    ELSE IF row[1][2].kind = "null" THEN DropNa(Tail(row))
         ELSE <<row[1]>> \o DropNa(Tail(row))

\* k-th row of the DataFrame returned by obtener_obras_orm: the nine columns
\* of lines 70-81; the joined and the date columns are NULL for some rows
DfRow(k) ==
    << <<"Nombre de la obra", Str(<<65 + (k % 26), Digito(k % 10)>>)>>,
       <<"Proyecto", IF k % 2 = 0 THEN NULL ELSE Str(<<80, Digito(k % 3)>>)>>,
       <<"Estado", Str(<<69>>)>>,
       <<"Fecha de inicio", IF k % 3 = 0 THEN NULL ELSE Fecha(2024, 1 + (k % 12), k)>>,
       <<"Fecha de finalización", NULL>>,
       <<"Responsable", NULL>>,
       <<"Correo", NULL>>,
       <<"Fase", NULL>>,
       <<"Año", IF k % 3 = 0 THEN NULL ELSE Num(2024)>> >>

\* DataFrame of n rows
Df(n) == [k \in 1..n |-> DfRow(k)]

----------------------------------------------------------------------------
(* Python helpers *)

\* s[a:b] for 0 <= a <= b
PySliceShort(s, a, b) == SubSeq(s, a + 1, Min(b, Len(s)) - 1)
PySlice(s, a, b) == SubSeq(s, a + 1, Min(b, Len(s)))

\* r.raise_for_status(): raises HTTPError for 4xx and 5xx
RaiseNever(status) == FALSE
RaiseForStatus(status) == status >= 400 /\ status < 600

\* doc["name"] == nombre: exact string comparison
Lower(s) == CASE s = "Toroto" -> "toroto"
              [] s = "Obras"  -> "obras"
              [] OTHER        -> s
NameMatchesNoCase(a, b) == Lower(a) = Lower(b)
NameMatches(a, b) == a = b

\* index of the first item of items named nombre, 0 if there is none
\* (the for loops of lines 93-96 and 105-108)
FirstMatch(items, nombre) ==
    LET hits == {k \in 1..Len(items) : NameMatches(items[k].name, nombre)}
    IN  IF hits = {} THEN 0 ELSE CHOOSE k \in hits : \A j \in hits : k <= j

----------------------------------------------------------------------------
(* Environment: configuration and the remote service *)

nombre_documento == "Toroto"     \* os.getenv("CODA_DOC_NAME")
nombre_tabla == "Obras"          \* os.getenv("CODA_TABLE_NAME")

\* the documents of the account and the tables of the document: names are
\* unique up to case, every item has its own id
Docs == {[id |-> "d1", name |-> "Toroto"], [id |-> "d2", name |-> "toroto"],
         [id |-> "d3", name |-> "Otro"]}
Tables == {[id |-> "t1", name |-> "Obras"], [id |-> "t2", name |-> "obras"],
           [id |-> "t3", name |-> "Otra"]}

\* statuses the service answers a listing, a DELETE and a POST with
ListStatuses == {200, 404, 429}
DeleteStatuses == {202, 429}
PostStatuses == {202, 429, 500}

\* numbers of rows considered: around the batch boundaries and the maximum
OldRowCounts == {0, 1, delete_batch, delete_batch + 1, MaxOldRows}
NewRowCounts == {0, 1, batch_size, batch_size + 1, MaxNewRows}

\* listings of at most MaxItems of the given items, in any order
ItemLists(catalog) == UNION {[1..n -> catalog] : n \in 0..MaxItems}

\* the "items" of a listing response: an error response carries none
\* (r.json().get("items", []))
ItemsOf(status, items) == IF status = 200 THEN items ELSE <<>>

Response(status, items) == [status |-> status, items |-> items]
NoResponse == Response(0, <<>>)

NoError == [en |-> "", tipo |-> ""]
Raised(en, tipo) == [en |-> en, tipo |-> tipo]

Entry(op, idx, att, body, status, espera) ==
    [op |-> op, i |-> idx, intento |-> att, body |-> body,
     status |-> status, espera |-> espera]

\* rows of the remote table before the run: ids 1..n, not produced by this run
OldRows(n) == [k \in 1..n |-> [id |-> k, origin |-> "old", cells |-> <<>>]]

\* effect of an accepted DELETE of rowIds on the remote table
RemoteDelete(rows, rowIds) ==
    SelectSeq(rows, LAMBDA row : \A k \in 1..Len(rowIds) : rowIds[k] # row.id)

\* effect of an accepted POST of payload rows: one new remote row per row
RemoteInsert(rows, first, payload) ==
    rows \o [k \in 1..Len(payload) |->
                [id |-> first + k - 1, origin |-> "new", cells |-> payload[k]]]

----------------------------------------------------------------------------
(* __main__ (lines 156-169): the order of the calls *)

SiguientePurgaAntes(etapa) ==
    CASE etapa = "doc"     -> "table"
      [] etapa = "table"   -> "list"
      [] etapa = "purge"   -> "extract"
      [] etapa = "extract" -> "insert"
      [] etapa = "insert"  -> "done"

SiguienteInsertaAntes(etapa) ==
    CASE etapa = "doc"     -> "table"
      [] etapa = "table"   -> "extract"
      [] etapa = "extract" -> "insert"
      [] etapa = "insert"  -> "list"
      [] etapa = "purge"   -> "done"

Siguiente(etapa) ==
    CASE etapa = "doc"     -> "table"
      [] etapa = "table"   -> "extract"
      [] etapa = "extract" -> "list"
      [] etapa = "purge"   -> "insert"
      [] etapa = "insert"  -> "done"

\* entering stage st whatever the sequence holds
EntrarSiempre(st, filas) == st

\* entering stage st: a batch loop over an empty sequence ends at once
RECURSIVE Entrar(_, _)
Entrar(st, filas) ==
    IF st = "insert" /\ Len(filas) = 0 THEN Entrar(Siguiente("insert"), filas)
    ELSE st

\* no second run; no database content looked at
NoOther == [pc |-> "none"]
NoDb == [obras |-> <<>>, proyectos |-> {}, responsables |-> {}]

Init ==
    /\ pc = "doc"
    /\ doc_id = ""
    /\ table_id = ""
    /\ filas_dicts = <<>>
    /\ ids = <<>>
    /\ i = 0
    /\ intento = 0
    /\ r = NoResponse
    /\ \E n \in OldRowCounts : remote = OldRows(n) /\ nextId = n + 1
    /\ clock = 0
    /\ error = NoError
    /\ log = <<>>
    /\ other = NoOther
    /\ db = NoDb
    /\ df_obras = <<>>
    /\ fila_df = <<>>
    /\ celdas = <<>>
    /\ paso = ""

\* an uncaught exception ends the run
Abort(en, tipo) ==
    /\ pc' = "aborted"
    /\ error' = Raised(en, tipo)

\* obtener_documento_id_por_nombre (lines 87-97)
ObtenerDocumentoId ==
    /\ pc = "doc"
    /\ \E status \in ListStatuses, listed \in ItemLists(Docs) :
          LET items == ItemsOf(status, listed)
              k == FirstMatch(items, nombre_documento)
          IN  /\ status # 200 => listed = <<>>
              /\ r' = Response(status, items)
              /\ log' = Append(log, Entry("GET_DOCS", 0, 0, <<>>, status, 0))
              /\ IF RaiseForStatus(status)
                 THEN Abort("obtener_documento_id_por_nombre", "HTTPError")
                      /\ UNCHANGED doc_id
                 ELSE IF k = 0
                 THEN Abort("obtener_documento_id_por_nombre", "ValueError")
                      /\ UNCHANGED doc_id
                 ELSE /\ doc_id' = items[k].id
                      /\ pc' = Entrar(Siguiente("doc"), filas_dicts)
                      /\ UNCHANGED error
    /\ UNCHANGED <<table_id, filas_dicts, ids, i, intento, remote, nextId, clock, aux>>

\* obtener_table_id (lines 99-109)
ObtenerTableId ==
    /\ pc = "table"
    /\ \E status \in ListStatuses, listed \in ItemLists(Tables) :
          LET items == ItemsOf(status, listed)
              k == FirstMatch(items, nombre_tabla)
          IN  /\ status # 200 => listed = <<>>
              /\ r' = Response(status, items)
              /\ log' = Append(log, Entry("GET_TABLES", 0, 0, <<>>, status, 0))
              /\ IF RaiseForStatus(status)
                 THEN Abort("obtener_table_id", "HTTPError")
                      /\ UNCHANGED table_id
                 ELSE IF k = 0
                 THEN Abort("obtener_table_id", "ValueError")
                      /\ UNCHANGED table_id
                 ELSE /\ table_id' = items[k].id
                      /\ pc' = Entrar(Siguiente("table"), filas_dicts)
                      /\ UNCHANGED error
    /\ UNCHANGED <<doc_id, filas_dicts, ids, i, intento, remote, nextId, clock, aux>>

\* outcome of the database query in the history: rows returned, or an
\* exception raised
QueryReturned == "ok"
QueryRaised == "raised"

\* obtener_obras_orm and the conversion to dicts (lines 163-166): the data
\* source fails, or returns n rows
ObtenerObras ==
    /\ pc = "extract"
    /\ \/ /\ Abort("obtener_obras_orm", "OperationalError")
          /\ log' = Append(log, Entry("QUERY", 0, 0, <<>>, QueryRaised, 0))
          /\ UNCHANGED filas_dicts
       \/ \E n \in NewRowCounts :
             LET df == Df(n)
                 filas == [k \in 1..n |-> DropNa(df[k])]
             IN  /\ filas_dicts' = filas
                 /\ log' = Append(log, Entry("QUERY", 0, 0, <<>>, QueryReturned, 0))
                 /\ pc' = Entrar(Siguiente("extract"), filas)
                 /\ UNCHANGED error
    /\ i' = 0
    /\ intento' = 0
    /\ UNCHANGED <<doc_id, table_id, ids, r, remote, nextId, clock, aux>>

\* eliminar_todas_las_filas, the listing of the rows (lines 112-117)
ListarFilas ==
    /\ pc = "list"
    /\ \E status \in ListStatuses :
          LET items == ItemsOf(status, remote)
              listed == [k \in 1..Len(items) |-> items[k].id]
          IN  /\ r' = Response(status, <<>>)
              /\ log' = Append(log, Entry("GET_ROWS", 0, 0, <<>>, status, 0))
              /\ IF RaiseForStatus(status)
                 THEN /\ Abort("eliminar_todas_las_filas", "HTTPError")
                      /\ UNCHANGED ids
                 ELSE /\ ids' = listed
                      /\ pc' = IF Len(listed) > 0 THEN "delete"
                               ELSE Entrar(Siguiente("purge"), filas_dicts)
                      /\ UNCHANGED error
    /\ i' = 0
    /\ intento' = 0
    /\ UNCHANGED <<doc_id, table_id, filas_dicts, remote, nextId, clock, aux>>

\* what follows the response to a DELETE (lines 122-125): both branches only
\* print, the loop goes on
TrasDeleteRaise(status) == IF status = 202 THEN "next" ELSE "raise"
TrasDeleteRetry(status) == IF status = 429 THEN "retry" ELSE "next"
TrasDelete(status) == "next"

\* eliminar_todas_las_filas, one iteration of the loop (lines 119-125)
EliminarBatch ==
    /\ pc = "delete"
    /\ \E status \in DeleteStatuses :
          LET rowIds == PySlice(ids, i, i + delete_batch)
              tras == TrasDelete(status)
          IN  /\ r' = Response(status, <<>>)
              /\ log' = Append(log, Entry("DELETE", i, 0, rowIds, status, 0))
              /\ remote' = IF status = 202 THEN RemoteDelete(remote, rowIds)
                           ELSE remote
              /\ CASE tras = "raise" ->
                        /\ Abort("eliminar_todas_las_filas", "HTTPError")
                        /\ UNCHANGED i
                   [] tras = "retry" ->
                        UNCHANGED <<i, pc, error>>
                   [] OTHER ->
                        /\ UNCHANGED error
                        /\ IF i + delete_batch < Len(ids)
                           THEN i' = i + delete_batch /\ UNCHANGED pc
                           ELSE /\ i' = 0
                                /\ pc' = Entrar(Siguiente("purge"), filas_dicts)
    /\ intento' = 0
    /\ UNCHANGED <<doc_id, table_id, filas_dicts, ids, nextId, clock, aux>>

\* espera = 2 ** intento (line 147)
EsperaLineal(n) == 2 * n
Espera(n) == Pow2(n)

\* for intento in range(max_reintentos): the first attempt of a batch is
\* attempt 0, whatever number of attempts the batch before it used
PrimerIntentoCompartido(usados) == usados
PrimerIntento(usados) == 0

\* what follows the response to a POST (lines 142-152)
TrasPostRetryAll(status) ==
    CASE status = 202 -> "break"
      [] OTHER        -> "sleep"
TrasPost(status) ==
    CASE status = 202 -> "break"
      [] status = 429 -> "sleep"
      [] OTHER        -> "break"

\* insertar_filas_en_bloques, one iteration of the inner loop (lines 136-152)
InsertarBatch ==
    /\ pc = "insert"
    /\ \E status \in PostStatuses :
          LET batch == PySlice(filas_dicts, i, i + batch_size)
              payload == [k \in 1..Len(batch) |-> serializar_fila(batch[k])]
              tras == TrasPost(status)
              post == Entry("POST", i, intento, payload, status, 0)
              sleep == Entry("SLEEP", i, intento, <<>>, 0, Espera(intento))
              usados == IF tras = "sleep" THEN intento + 1 ELSE intento
              siguienteBatch ==
                  /\ intento' = PrimerIntento(usados)
                  /\ IF i + batch_size < Len(filas_dicts)
                     THEN i' = i + batch_size /\ UNCHANGED pc
                     ELSE i' = 0 /\ pc' = Siguiente("insert")
          IN  /\ r' = Response(status, <<>>)
              /\ IF status = 202
                 THEN /\ remote' = RemoteInsert(remote, nextId, payload)
                      /\ nextId' = nextId + Len(payload)
                 ELSE UNCHANGED <<remote, nextId>>
              /\ IF tras = "sleep"
                 THEN /\ log' = log \o <<post, sleep>>
                      /\ clock' = clock + Espera(intento)
                      /\ IF intento + 1 < max_reintentos
                         THEN intento' = intento + 1 /\ UNCHANGED <<i, pc>>
                         ELSE siguienteBatch
                 ELSE /\ log' = Append(log, post)
                      /\ UNCHANGED clock
                      /\ siguienteBatch
    /\ UNCHANGED <<doc_id, table_id, filas_dicts, ids, error, aux>>

Next ==
    \/ ObtenerDocumentoId
    \/ ObtenerTableId
    \/ ObtenerObras
    \/ ListarFilas
    \/ EliminarBatch
    \/ InsertarBatch

Spec == Init /\ [][Next]_vars

----------------------------------------------------------------------------
(* Reading the history *)

Ops(op) == {p \in 1..Len(log) : log[p].op = op}
Entries(op) == SelectSeq(log, LAMBDA e : e.op = op)
LastOp == IF log = <<>> THEN "" ELSE log[Len(log)].op
NoMutation == Ops("DELETE") = {} /\ Ops("POST") = {}

\* the POSTs and the sleeps of the insert batch that starts at row b
PostsOf(b) == SelectSeq(log, LAMBDA e : e.op = "POST" /\ e.i = b)
SleepsOf(b) == SelectSeq(log, LAMBDA e : e.op = "SLEEP" /\ e.i = b)
PostedBatches == {log[p].i : p \in Ops("POST")}

RECURSIVE SumEspera(_)
SumEspera(s) == IF s = <<>> THEN 0 ELSE s[1].espera + SumEspera(Tail(s))

Statuses(s) == [k \in 1..Len(s) |-> s[k].status]
Sizes(s) == [k \in 1..Len(s) |-> Len(s[k].body)]

NamedItems(items, nombre) == {k \in 1..Len(items) : items[k].name = nombre}

DocFailed ==
    /\ LastOp = "GET_DOCS"
    /\ r.status >= 400 \/ NamedItems(r.items, nombre_documento) = {}
TableFailed ==
    /\ LastOp = "GET_TABLES"
    /\ r.status >= 400 \/ NamedItems(r.items, nombre_tabla) = {}
ExtractFailed == error.en = "obtener_obras_orm"

----------------------------------------------------------------------------
\* C1: when the document lookup, the table lookup or the extraction fails
\* (non-success status, no item of exactly the requested name, data source
\* failure), the run is aborted and its history holds no DELETE and no POST.
C1_FailFast ==
    (DocFailed \/ TableFailed \/ ExtractFailed) => (pc = "aborted" /\ NoMutation)

\* a table lookup answered 200 without the requested name ended the run
C1_Witness ==
    /\ pc = "aborted"
    /\ TableFailed
    /\ r.status = 200
    /\ Len(r.items) > 0

----------------------------------------------------------------------------
\* the first rows of the insert batches of n rows: 0, 10, 20, ...
InsertStarts(n) == {b \in 0..(n - 1) : b % 10 = 0}

\* C2, as stated: once the purge has started (its row listing was requested)
\* no response aborts the run.
C2_Original == Ops("GET_ROWS") # {} => pc # "aborted"

\* C2, amended: no response to a DELETE or to a POST aborts the run, and a
\* run that ends has POSTed every insert batch; a row listing answered with a
\* 4xx/5xx status aborts the run before any DELETE or POST.
C2_PurgeInsertErrors ==
    /\ ~NoMutation => pc # "aborted"
    /\ pc = "done" => \A b \in InsertStarts(Len(filas_dicts)) : b \in PostedBatches
    /\ \A p \in Ops("GET_ROWS") :
          log[p].status >= 400 =>
             /\ pc = "aborted"
             /\ error = Raised("eliminar_todas_las_filas", "HTTPError")
             /\ NoMutation

\* a run ended normally although a DELETE was refused and a POST was answered 500
C2_Witness ==
    /\ pc = "done"
    /\ \E p \in Ops("DELETE") : log[p].status # 202
    /\ \E p \in Ops("POST") : log[p].status = 500
    /\ Cardinality(PostedBatches) = 3

----------------------------------------------------------------------------
----------------------------------------------------------------------------
\* C4: no insert batch is POSTed more than 5 times; a batch answered 429 five
\* times does not abort the run, is left, and in a finished run every later
\* batch has been POSTed.
C4_MaxAttempts ==
    /\ \A b \in PostedBatches : Len(PostsOf(b)) <= 5
    /\ \A b \in PostedBatches :
          Statuses(PostsOf(b)) = <<429, 429, 429, 429, 429>> =>
             /\ pc # "aborted"
             /\ error = NoError
             /\ pc = "insert" => i > b
             /\ pc = "done" =>
                   \A c \in InsertStarts(Len(filas_dicts)) : c > b => PostsOf(c) # <<>>

\* the first batch was answered 429 five times and a later batch was accepted
C4_Witness ==
    /\ pc = "done"
    /\ Statuses(PostsOf(0)) = <<429, 429, 429, 429, 429>>
    /\ Statuses(PostsOf(10)) = <<202>>
    /\ PostsOf(20) # <<>>

----------------------------------------------------------------------------
\* C5: a POST answered with a status other than 202 and 429 is followed by no
\* sleep and by no further POST of the same batch, the run is not aborted, and
\* the next thing the run does is the first POST of the next batch, if any.
C5_Rejected ==
    \A p \in Ops("POST") :
       log[p].status \notin {202, 429} =>
          /\ pc # "aborted"
          /\ error = NoError
          /\ \A q \in Ops("POST") : q # p => log[q].i # log[p].i \/ q < p
          /\ \A q \in Ops("SLEEP") : log[q].i = log[p].i => q < p
          /\ IF log[p].i + 10 < Len(filas_dicts)
             THEN IF p < Len(log)
                  THEN /\ log[p + 1].op = "POST"
                       /\ log[p + 1].i = log[p].i + 10
                       /\ log[p + 1].intento = 0
                  ELSE pc = "insert" /\ i = log[p].i + 10 /\ intento = 0
             ELSE p = Len(log) /\ pc = "done"

\* a batch was answered 500 after a 429, and the next batch was POSTed
C5_Witness ==
    /\ Statuses(PostsOf(0)) = <<429, 500>>
    /\ PostsOf(10) # <<>>
    /\ pc = "done"

----------------------------------------------------------------------------
Ceil(n, d) == (n + d - 1) \div d

RECURSIVE Flatten(_)
Flatten(ss) == IF ss = <<>> THEN <<>> ELSE ss[1] \o Flatten(Tail(ss))

Bodies(s) == [k \in 1..Len(s) |-> s[k].body]

\* the purge has run to its end
PurgeDone == Ops("GET_ROWS") # {} /\ pc \in {"insert", "done"}

\* C6: with N ids listed, the k-th DELETE carries ids[50(k-1)+1 .. min(50k, N)],
\* between 1 and 50 ids; when the purge has ended, whatever the responses,
\* exactly ceil(N/50) DELETEs were issued and their bodies, in order, make up
\* the listing (120 ids: 50, 50 and 20; none: no DELETE).
C6_DeleteBatches ==
    LET D == Entries("DELETE")
        N == Len(ids)
    IN  /\ \A k \in 1..Len(D) :
              /\ D[k].body = SubSeq(ids, 50 * (k - 1) + 1, Min(50 * k, N))
              /\ Len(D[k].body) \in 1..50
        /\ Len(D) <= Ceil(N, 50)
        /\ PurgeDone =>
              /\ Len(D) = Ceil(N, 50)
              /\ Flatten(Bodies(D)) = ids
              /\ \A n \in 1..N : ids[n] = n
              /\ N = 0 => D = <<>>
              /\ N = 120 => Sizes(D) = <<50, 50, 20>>

\* 120 ids were purged in three DELETEs, the second one refused
C6_Witness ==
    /\ PurgeDone
    /\ Len(ids) = 120
    /\ Statuses(Entries("DELETE")) = <<202, 429, 202>>

----------------------------------------------------------------------------
\* C7: no delete batch is requested twice and no DELETE response aborts the
\* run; after a refused DELETE the next thing the run does is the DELETE of the
\* next batch, if any; a finished run whose DELETEs were all refused has
\* POSTed every insert batch and the remote table still holds every old row,
\* followed by the rows of the accepted POSTs.
C7_BestEffortPurge ==
    LET D == Entries("DELETE")
        N == Len(ids)
    IN  /\ \A p, q \in Ops("DELETE") : p # q => log[p].i # log[q].i
        /\ Ops("DELETE") # {} => pc # "aborted" /\ error = NoError
        /\ \A p \in Ops("DELETE") :
              (log[p].status # 202 /\ log[p].i + 50 < N) =>
                 IF p < Len(log)
                 THEN log[p + 1].op = "DELETE" /\ log[p + 1].i = log[p].i + 50
                 ELSE pc = "delete" /\ i = log[p].i + 50
        /\ (pc = "done" /\ D # <<>> /\ \A k \in 1..Len(D) : D[k].status # 202) =>
              /\ Len(D) = Ceil(N, 50)
              /\ \A b \in InsertStarts(Len(filas_dicts)) : b \in PostedBatches
              /\ Len(remote) >= N
              /\ \A n \in 1..N : remote[n].id = ids[n] /\ remote[n].origin = "old"
              /\ \A n \in (N + 1)..Len(remote) : remote[n].origin = "new"
              /\ (\A b \in PostedBatches : \E k \in 1..Len(PostsOf(b)) :
                                              PostsOf(b)[k].status = 202) =>
                    Len(remote) = N + Len(filas_dicts)

\* three DELETEs were refused and the table ends with 120 old and 25 new rows
C7_Witness ==
    /\ pc = "done"
    /\ Statuses(Entries("DELETE")) = <<429, 429, 429>>
    /\ Len(remote) = 145
    /\ remote[1].origin = "old"
    /\ remote[145].origin = "new"

----------------------------------------------------------------------------
\* the first attempts of the insert batches, in the order of their POSTs
FirstPosts == SelectSeq(log, LAMBDA e : e.op = "POST" /\ e.intento = 0)

Payload(filas) == [k \in 1..Len(filas) |-> serializar_fila(filas[k])]

\* C8: every POST carries the rows filas[i+1 .. min(i+10, N)] of a batch start
\* i (a multiple of 10), between 1 and 10 rows; a finished run has POSTed
\* ceil(N/10) batches whose rows, in order, are the N rows, each once; when
\* every POST was answered 202 there are exactly ceil(N/10) POSTs (25 rows:
\* 10, 10 and 5).
C8_InsertBatches ==
    LET P == Entries("POST")
        F == FirstPosts
        N == Len(filas_dicts)
    IN  /\ \A k \in 1..Len(P) :
              /\ P[k].i % 10 = 0
              /\ P[k].body = Payload(SubSeq(filas_dicts, P[k].i + 1, Min(P[k].i + 10, N)))
              /\ Len(P[k].body) \in 1..10
        /\ \A k \in 1..Len(F) : F[k].i = 10 * (k - 1)
        /\ pc = "done" =>
              /\ Len(F) = Ceil(N, 10)
              /\ Flatten(Bodies(F)) = Payload(filas_dicts)
              /\ \A m, n \in 1..N : m # n => filas_dicts[m] # filas_dicts[n]
              /\ (\A k \in 1..Len(P) : P[k].status = 202) =>
                    /\ Len(P) = Ceil(N, 10)
                    /\ N = 25 => Sizes(P) = <<10, 10, 5>>

\* 25 rows were inserted by three POSTs, all answered 202
C8_Witness ==
    /\ pc = "done"
    /\ Len(filas_dicts) = 25
    /\ Statuses(Entries("POST")) = <<202, 202, 202>>

----------------------------------------------------------------------------
\* every request of the run was accepted: the row listing succeeded, every
\* DELETE was answered 202 and every insert batch ended with a 202
AllAccepted ==
    /\ \E p \in Ops("GET_ROWS") : log[p].status = 200
    /\ \A p \in Ops("DELETE") : log[p].status = 202
    /\ \A b \in InsertStarts(Len(filas_dicts)) :
          \E p \in Ops("POST") : log[p].i = b /\ log[p].status = 202

\* C9: after a finished run in which everything was accepted the remote table
\* holds exactly one row per extracted row, with that row's cells, in order,
\* and no row that was there before the run.
C9_FullReplace ==
    (pc = "done" /\ AllAccepted) =>
       /\ Len(remote) = Len(filas_dicts)
       /\ \A k \in 1..Len(remote) :
             /\ remote[k].origin = "new"
             /\ remote[k].cells = serializar_fila(filas_dicts[k])
             /\ \A n \in 1..Len(ids) : remote[k].id # ids[n]

\* 120 old rows were replaced by 25 new ones, one batch after a 429
C9_Witness ==
    /\ pc = "done"
    /\ AllAccepted
    /\ Len(ids) = 120
    /\ Len(remote) = 25
    /\ \E p \in Ops("POST") : log[p].status = 429

----------------------------------------------------------------------------
\* C10: each lookup issues one listing request at most, exactly one once it
\* is over; a lookup that returns, returns the id of a listed item whose name
\* is exactly the requested name, after a success status; a listing with a
\* 4xx/5xx status, or without an item of exactly that name, ends the run with
\* an error.
C10_Lookup ==
    /\ Cardinality(Ops("GET_DOCS")) <= 1
    /\ Cardinality(Ops("GET_TABLES")) <= 1
    /\ pc # "doc" => Cardinality(Ops("GET_DOCS")) = 1
    /\ pc \notin {"doc", "table"} /\ ~DocFailed => Cardinality(Ops("GET_TABLES")) = 1
    /\ (LastOp = "GET_DOCS" /\ pc # "aborted") =>
          /\ r.status < 400
          /\ \E k \in NamedItems(r.items, nombre_documento) : doc_id = r.items[k].id
    /\ (LastOp = "GET_TABLES" /\ pc # "aborted") =>
          /\ r.status < 400
          /\ \E k \in NamedItems(r.items, nombre_tabla) : table_id = r.items[k].id
    /\ (LastOp = "GET_DOCS" /\ r.status >= 400) =>
          pc = "aborted" /\ error = Raised("obtener_documento_id_por_nombre", "HTTPError")
    /\ (LastOp = "GET_DOCS" /\ r.status < 400 /\ NamedItems(r.items, nombre_documento) = {}) =>
          pc = "aborted" /\ error = Raised("obtener_documento_id_por_nombre", "ValueError")
    /\ (LastOp = "GET_TABLES" /\ r.status >= 400) =>
          pc = "aborted" /\ error = Raised("obtener_table_id", "HTTPError")
    /\ (LastOp = "GET_TABLES" /\ r.status < 400 /\ NamedItems(r.items, nombre_tabla) = {}) =>
          pc = "aborted" /\ error = Raised("obtener_table_id", "ValueError")

\* the table lookup returned the id of the second item; the first one is named
\* the same up to case
C10_Witness ==
    /\ LastOp = "GET_TABLES"
    /\ pc = "extract"
    /\ Len(r.items) = 2
    /\ r.items[1].name = "obras"
    /\ r.items[2].name = "Obras"
    /\ r.items[1].id # r.items[2].id
    /\ table_id = r.items[2].id

\* a document listing holding only a name that differs in case ended the run
C10_WitnessNoMatch ==
    /\ LastOp = "GET_DOCS"
    /\ pc = "aborted"
    /\ Len(r.items) = 1
    /\ r.items[1].name = "toroto"

----------------------------------------------------------------------------
(* The conversion of one row of the DataFrame taken alone (lines 166, 138) *)

\* df["Año"] = df["Fecha de inicio"].dt.year (line 81)
AnioDe(val) == IF val.kind = "date" THEN Num(val.v[1]) ELSE NULL

\* the rows a DataFrame of obtener_obras_orm can hold: every column but the
\* derived year is NULL or has a value
FilasDf ==
    { << <<"Nombre de la obra", nombre>>, <<"Proyecto", proyecto>>,
         <<"Estado", estado>>, <<"Fecha de inicio", inicio>>,
         <<"Fecha de finalización", fin>>, <<"Responsable", responsable>>,
         <<"Correo", correo>>, <<"Fase", fase>>, <<"Año", AnioDe(inicio)>> >> :
        nombre \in {NULL, Str(<<79, 49>>)},
        proyecto \in {NULL, Str(<<80>>)},
        estado \in {NULL, Str(<<69>>)},
        inicio \in {NULL, Fecha(2024, 1, 5), Fecha(1999, 12, 31)},
        fin \in {NULL, Fecha(2025, 10, 9)},
        responsable \in {NULL, Str(<<82>>)},
        correo \in {NULL, Str(<<67, 64>>)},
        fase \in {NULL, Str(<<70>>)} }

\* no run of __main__ is being stepped
Parado ==
    /\ pc = "none"
    /\ doc_id = ""
    /\ table_id = ""
    /\ filas_dicts = <<>>
    /\ ids = <<>>
    /\ i = 0
    /\ intento = 0
    /\ r = NoResponse
    /\ remote = <<>>
    /\ nextId = 1
    /\ clock = 0
    /\ error = NoError
    /\ log = <<>>
    /\ other = NoOther

InitFila ==
    /\ Parado
    /\ db = NoDb
    /\ df_obras = <<>>
    /\ fila_df \in FilasDf
    /\ celdas = <<>>
    /\ paso = "fila"

\* serializar_fila(row.dropna().to_dict()) for the row (lines 166 and 138)
SerializarFila ==
    /\ paso = "fila"
    /\ celdas' = serializar_fila(DropNa(fila_df))
    /\ paso' = "serializada"
    /\ UNCHANGED <<pc, doc_id, table_id, filas_dicts, ids, i, intento, r, remote,
                   nextId, clock, error, log, other, db, df_obras, fila_df>>

NextFila == SerializarFila

SpecFila == InitFila /\ [][NextFila]_vars

\* the fields of the row that have a value
Presentes == {k \in 1..Len(fila_df) : fila_df[k][2].kind # "null"}

\* C11: the serialization of a row holds exactly one cell per field that has a
\* value, none for a field without a value and no cell with a null value; a
\* row with only name and status has exactly 2 cells.
C11_Cells ==
    paso = "serializada" =>
       /\ Len(celdas) = Cardinality(Presentes)
       /\ \A k \in 1..Len(fila_df) :
             Cardinality({c \in 1..Len(celdas) : celdas[c].column = fila_df[k][1]})
                = IF k \in Presentes THEN 1 ELSE 0
       /\ \A c \in 1..Len(celdas) : celdas[c].value.kind # "null"
       /\ Presentes = {1, 3} => Len(celdas) = 2

\* a row with only name and status was serialized to its two cells
C11_Witness ==
    /\ paso = "serializada"
    /\ Presentes = {1, 3}
    /\ Len(celdas) = 2
    /\ celdas[1].column = "Nombre de la obra"
    /\ celdas[2].column = "Estado"

----------------------------------------------------------------------------
(* obtener_obras_orm taken alone (lines 51-83): the query and the DataFrame *)

MaxObras == 2          \* largest number of rows of the table obras

NullId == 0            \* a NULL proyecto_id / responsable_id
ProyectoIds == {1, 2}
ResponsableIds == {1, 2}

\* rows of proyectos and responsables; id is the primary key (lines 26, 31)
ProyectoRow(j) == [id |-> j, nombre |-> Str(<<80, Digito(j)>>)]
ResponsableRow(j) ==
    [id |-> j, nombre |-> Str(<<82, Digito(j)>>),
     correo |-> IF j = 1 THEN Str(<<67, 64, Digito(j)>>) ELSE NULL]

\* the k-th row of obras, with the given foreign keys (lines 35-44)
ObraRow(k, pid, rid) ==
    [id |-> k, nombre_obra |-> Str(<<79, Digito(k)>>), proyecto_id |-> pid,
     estado |-> Str(<<69>>),
     fecha_inicio |-> IF k % 2 = 1 THEN Fecha(2024, 1, k) ELSE NULL,
     fecha_fin |-> NULL, responsable_id |-> rid, fase |-> NULL]

\* database contents: up to MaxObras obras whose foreign keys are NULL, match
\* a row or match none; any subset of the rows of the two other tables
Dbs ==
    { [obras |-> [k \in 1..Len(fk) |-> ObraRow(k, fk[k][1], fk[k][2])],
       proyectos |-> {ProyectoRow(j) : j \in ps},
       responsables |-> {ResponsableRow(j) : j \in rs}] :
        fk \in UNION {[1..m -> ({NullId} \cup ProyectoIds) \X ({NullId} \cup ResponsableIds)] :
                         m \in 0..MaxObras},
        ps \in SUBSET ProyectoIds,
        rs \in SUBSET ResponsableIds }

\* the unmatched right side of an outer join: every column NULL
SinProyecto == [id |-> NullId, nombre |-> NULL]
SinResponsable == [id |-> NullId, nombre |-> NULL, correo |-> NULL]

\* isouter=True (lines 65, 66)
EsInner == FALSE
isouter == TRUE

\* the rows of tabla joined to a row whose foreign key is fk: the rows with
\* that id (NULL equals nothing); for an outer join the all-NULL row when
\* there is none
Joined(tabla, fk, sinFila) ==
    LET match == {t \in tabla : fk # NullId /\ t.id = fk}
    IN  IF match = {} /\ isouter THEN {sinFila} ELSE match

\* a set of rows as a sequence, by id
RECURSIVE PorId(_)
PorId(rows) ==
    IF rows = {} THEN <<>>
    ELSE LET first == CHOOSE t \in rows : \A u \in rows : t.id <= u.id
         IN  <<first>> \o PorId(rows \ {first})

\* one row of the DataFrame (lines 56-64, 70-81): the labelled columns, the
\* dates converted, the year derived
FilaDe(o, p, resp) ==
    << <<"Nombre de la obra", o.nombre_obra>>,
       <<"Proyecto", p.nombre>>,
       <<"Estado", o.estado>>,
       <<"Fecha de inicio", o.fecha_inicio>>,
       <<"Fecha de finalización", o.fecha_fin>>,
       <<"Responsable", resp.nombre>>,
       <<"Correo", resp.correo>>,
       <<"Fase", o.fase>>,
       <<"Año", AnioDe(o.fecha_inicio)>> >>

\* the rows the query returns for one obra: one per pair of joined rows
FilasDeObra(o, d) ==
    LET ps == PorId(Joined(d.proyectos, o.proyecto_id, SinProyecto))
        rs == PorId(Joined(d.responsables, o.responsable_id, SinResponsable))
    IN  Flatten([a \in 1..Len(ps) |-> [b \in 1..Len(rs) |-> FilaDe(o, ps[a], rs[b])]])

\* the query over the whole table obras (lines 56-67)
Consulta(d) == Flatten([k \in 1..Len(d.obras) |-> FilasDeObra(d.obras[k], d)])

InitObras ==
    /\ Parado
    /\ db \in Dbs
    /\ df_obras = <<>>
    /\ fila_df = <<>>
    /\ celdas = <<>>
    /\ paso = "consulta"

\* df_obras = obtener_obras_orm() (line 163)
ConsultarObras ==
    /\ paso = "consulta"
    /\ df_obras' = Consulta(db)
    /\ paso' = "consultado"
    /\ UNCHANGED <<pc, doc_id, table_id, filas_dicts, ids, i, intento, r, remote,
                   nextId, clock, error, log, other, db, fila_df, celdas>>

NextObras == ConsultarObras

SpecObras == InitObras /\ [][NextObras]_vars

\* the value of column col in a row of the DataFrame
Campo(row, col) == (CHOOSE k \in 1..Len(row) : row[k][1] = col)
ValorDe(row, col) == row[Campo(row, col)][2]

\* C12: the DataFrame has as many rows as the table obras, exactly one per
\* obra; an obra whose proyecto_id (responsable_id) is NULL or matches no row
\* has its row with the project (responsible, email) column without a value.
C12_RowCount ==
    paso = "consultado" =>
       /\ Len(df_obras) = Len(db.obras)
       /\ \A k \in 1..Len(db.obras) :
             LET o == db.obras[k]
                 mine == {n \in 1..Len(df_obras) :
                             ValorDe(df_obras[n], "Nombre de la obra") = o.nombre_obra}
             IN  /\ Cardinality(mine) = 1
                 /\ \A n \in mine :
                       /\ (\A p \in db.proyectos : p.id # o.proyecto_id) =>
                             ValorDe(df_obras[n], "Proyecto") = NULL
                       /\ (\A t \in db.responsables : t.id # o.responsable_id) =>
                             /\ ValorDe(df_obras[n], "Responsable") = NULL
                             /\ ValorDe(df_obras[n], "Correo") = NULL
                       /\ (\E p \in db.proyectos : p.id = o.proyecto_id) =>
                             ValorDe(df_obras[n], "Proyecto") # NULL

\* two obras, one with a NULL project and a dangling responsible, one fully
\* matched, gave two rows
C12_Witness ==
    /\ paso = "consultado"
    /\ Len(db.obras) = 2
    /\ db.obras[1].proyecto_id = NullId
    /\ db.obras[1].responsable_id = 2
    /\ db.responsables = {ResponsableRow(1)}
    /\ db.obras[2].proyecto_id = 1
    /\ db.obras[2].responsable_id = 1
    /\ db.proyectos = {ProyectoRow(1)}
    /\ Len(df_obras) = 2

----------------------------------------------------------------------------
\* place of an entry of the history in the order of __main__
Rank(e) ==
    CASE e.op = "GET_DOCS"   -> 1
      [] e.op = "GET_TABLES" -> 2
      [] e.op = "QUERY"      -> 3
      [] e.op = "GET_ROWS"   -> 4
      [] e.op = "DELETE"     -> 5
      [] OTHER               -> 6

\* C13: the history of a run is ordered document listing, table listing,
\* extraction, row listing, DELETEs, POSTs (with their sleeps); each of the
\* first four occurs once at most; before any DELETE both lookups returned an
\* id, the extraction returned and the rows were listed; no DELETE follows a
\* POST.
C13_Order ==
    /\ \A p, q \in 1..Len(log) : p < q => Rank(log[p]) <= Rank(log[q])
    /\ \A p, q \in 1..Len(log) : (p < q /\ Rank(log[q]) <= 4) => Rank(log[p]) < Rank(log[q])
    /\ \A d \in Ops("DELETE") :
          /\ \E p \in Ops("GET_DOCS") : p < d /\ log[p].status < 400
          /\ \E p \in Ops("GET_TABLES") : p < d /\ log[p].status < 400
          /\ \E p \in Ops("QUERY") : p < d /\ log[p].status = "ok"
          /\ \E p \in Ops("GET_ROWS") : p < d /\ log[p].status < 400
          /\ doc_id = "d1" /\ table_id = "t1"
          /\ \A p \in Ops("POST") : d < p

\* a run issued every kind of request
C13_Witness ==
    /\ pc = "done"
    /\ Len(Entries("DELETE")) = 3
    /\ Len(Entries("POST")) >= 3
    /\ Ops("SLEEP") # {}

----------------------------------------------------------------------------
\* the script runs on until it ends: every request returns and nothing
\* cancels the run
FairSpec == Spec /\ WF_vars(Next)

\* state of the insert batch that starts at row b, read from the history
EstadoBatch(b) ==
    LET P == PostsOf(b)
    IN  IF P = <<>> THEN "Pending"
        ELSE IF P[Len(P)].status = 202 THEN "Accepted"
        ELSE IF P[Len(P)].status # 429 THEN "Rejected"
        ELSE IF Len(P) = 5 THEN "MaxRetriesExceeded"
        ELSE "RateLimited"

Terminal == {"Accepted", "Rejected", "MaxRetriesExceeded"}

AllTerminal == \A b \in InsertStarts(Len(filas_dicts)) : EstadoBatch(b) \in Terminal

\* every batch follows the state machine, batches one after another
BatchMachine ==
    /\ \A b \in PostedBatches :
          LET P == PostsOf(b)
          IN  /\ Len(P) <= 5
              /\ \A k \in 1..Len(P) : P[k].intento = k - 1
              /\ \A k \in 1..(Len(P) - 1) : P[k].status = 429
              /\ EstadoBatch(b) = "RateLimited" => (pc = "insert" /\ i = b)
              /\ EstadoBatch(b) \in Terminal => (pc = "done" \/ (pc = "insert" /\ i > b))
              /\ b >= 10 => EstadoBatch(b - 10) \in Terminal
    /\ \A p, q \in Ops("POST") : p < q => log[p].i <= log[q].i
    /\ pc = "done" => AllTerminal

\* C14: every insert batch follows Pending -> Submitted -> Accepted | Rejected
\* | RateLimited -> Submitted, with MaxRetriesExceeded after five 429; a batch
\* in a terminal state is not POSTed again and the next batch is POSTed only
\* then; whatever the responses, the insert phase ends with every batch in a
\* terminal state.
C14_BatchStates ==
    /\ []BatchMachine
    /\ (pc = "insert") ~> (pc = "done" /\ AllTerminal)

\* three batches ended accepted, rejected and out of attempts
C14_Witness ==
    /\ pc = "done"
    /\ EstadoBatch(0) = "MaxRetriesExceeded"
    /\ EstadoBatch(10) = "Rejected"
    /\ EstadoBatch(20) = "Accepted"

----------------------------------------------------------------------------
\* C15: the attempts of every insert batch are numbered from 0, whatever the
\* batches before it used: its k-th POST is attempt k-1, it is POSTed 5 times
\* at most, its first sleep lasts 1 and its n-th sleep 2^(n-1); a batch is
\* POSTed again after a 429 as long as it has had fewer than 5 attempts.
C15_PerBatchBudget ==
    \A b \in PostedBatches :
       LET P == PostsOf(b)
           S == SleepsOf(b)
       IN  /\ P[1].intento = 0
           /\ \A k \in 1..Len(P) : P[k].intento = k - 1
           /\ Len(P) <= 5
           /\ S # <<>> => S[1].espera = 1
           /\ \A n \in 1..Len(S) : S[n].espera = 2 ^ (n - 1)
           /\ (P[Len(P)].status = 429 /\ Len(P) < 5) => (pc = "insert" /\ i = b)
           /\ (pc = "insert" /\ i = b) => intento = Len(P)

\* the first batch used its five attempts, and so did the second one, whose
\* first sleep lasted 1
C15_Witness ==
    /\ Statuses(PostsOf(0)) = <<429, 429, 429, 429, 429>>
    /\ Statuses(PostsOf(10)) = <<429, 429, 429, 429, 202>>
    /\ SleepsOf(10)[1].espera = 1
    /\ SumEspera(SleepsOf(10)) = 15

----------------------------------------------------------------------------
(* Two runs of the script against the same remote table.  The variables pc  *)
(* ... log are those of the run that executes; the other run's are kept in  *)
(* other, and the operating system switches between the two at any request. *)
(* Both runs have resolved the ids and are about to extract; the service    *)
(* accepts every request.                                                   *)

Locals ==
    [pc |-> pc, doc_id |-> doc_id, table_id |-> table_id,
     filas_dicts |-> filas_dicts, ids |-> ids, i |-> i, intento |-> intento,
     r |-> r, clock |-> clock, error |-> error, log |-> log]

\* the locals of a run after obtener_table_id returned (line 161)
Resuelto ==
    [pc |-> "extract", doc_id |-> "d1", table_id |-> "t1",
     filas_dicts |-> <<>>, ids |-> <<>>, i |-> 0, intento |-> 0,
     r |-> Response(200, <<[id |-> "t1", name |-> "Obras"]>>),
     clock |-> 0, error |-> NoError,
     log |-> <<Entry("GET_DOCS", 0, 0, <<>>, 200, 0),
               Entry("GET_TABLES", 0, 0, <<>>, 200, 0)>>]

InitDos ==
    /\ pc = Resuelto.pc
    /\ doc_id = Resuelto.doc_id
    /\ table_id = Resuelto.table_id
    /\ filas_dicts = Resuelto.filas_dicts
    /\ ids = Resuelto.ids
    /\ i = Resuelto.i
    /\ intento = Resuelto.intento
    /\ r = Resuelto.r
    /\ clock = Resuelto.clock
    /\ error = Resuelto.error
    /\ log = Resuelto.log
    /\ other = Resuelto
    /\ \E n \in OldRowCounts : remote = OldRows(n) /\ nextId = n + 1
    /\ db = NoDb
    /\ df_obras = <<>>
    /\ fila_df = <<>>
    /\ celdas = <<>>
    /\ paso = ""

\* the processor passes from one run to the other
Cambiar ==
    /\ other.pc # "none"
    /\ other' = Locals
    /\ pc' = other.pc
    /\ doc_id' = other.doc_id
    /\ table_id' = other.table_id
    /\ filas_dicts' = other.filas_dicts
    /\ ids' = other.ids
    /\ i' = other.i
    /\ intento' = other.intento
    /\ r' = other.r
    /\ clock' = other.clock
    /\ error' = other.error
    /\ log' = other.log
    /\ UNCHANGED <<remote, nextId, db, df_obras, fila_df, celdas, paso>>

\* the step raised nothing and its request, if any, was accepted
Aceptado == error = NoError /\ r.status \in {200, 202}

NextDos ==
    \/ ObtenerObras /\ Aceptado'
    \/ ListarFilas /\ Aceptado'
    \/ EliminarBatch /\ Aceptado'
    \/ InsertarBatch /\ Aceptado'
    \/ Cambiar

SpecDos == InitDos /\ [][NextDos]_vars

\* number of rows the accepted POSTs of a history inserted
RECURSIVE Inserted(_)
Inserted(lg) ==
    IF lg = <<>> THEN 0
    ELSE (IF lg[1].op = "POST" /\ lg[1].status = 202 THEN Len(lg[1].body) ELSE 0)
         + Inserted(Tail(lg))

\* number of rows of the table before the two runs: the service numbers the
\* rows it inserts from there on
OldCount == nextId - 1 - Inserted(log) - Inserted(other.log)

\* the rows inserted by the runs that a listing returned
NewListed(idseq) == {k \in 1..Len(idseq) : idseq[k] > OldCount}

\* C16: when two runs have ended, all their requests accepted, the table holds
\* no old row and every inserted row but those the other run listed; when
\* neither run listed a row of the other and both inserted rows, the table
\* holds the rows of both runs, which is not what a single run extracted.
C16_TwoRuns ==
    (pc = "done" /\ other.pc = "done") =>
       /\ \A k \in 1..Len(remote) :
             /\ remote[k].origin = "new"
             /\ \A n \in 1..Len(ids) : ids[n] # remote[k].id
             /\ \A n \in 1..Len(other.ids) : other.ids[n] # remote[k].id
       /\ Len(remote) = Len(filas_dicts) + Len(other.filas_dicts)
                           - Cardinality(NewListed(ids))
                           - Cardinality(NewListed(other.ids))
       /\ (/\ NewListed(ids) = {}
           /\ NewListed(other.ids) = {}
           /\ filas_dicts # <<>>
           /\ other.filas_dicts # <<>>) =>
             /\ Len(remote) = Len(filas_dicts) + Len(other.filas_dicts)
             /\ [k \in 1..Len(remote) |-> remote[k].cells] # Payload(filas_dicts)
             /\ [k \in 1..Len(remote) |-> remote[k].cells] # Payload(other.filas_dicts)

\* both runs listed the 51 old rows before either inserted: the table ends
\* with the 11 rows of each run, 22 rows
C16_Witness ==
    /\ pc = "done"
    /\ other.pc = "done"
    /\ Len(ids) = 51
    /\ Len(other.ids) = 51
    /\ Len(filas_dicts) = 11
    /\ Len(other.filas_dicts) = 11
    /\ Len(remote) = 22

----------------------------------------------------------------------------
\* the row listing of the run returned
Listed == \E p \in Ops("GET_ROWS") : log[p].status = 200

RemoteOld == SelectSeq(remote, LAMBDA row : row.origin = "old")
RemoteNew == SelectSeq(remote, LAMBDA row : row.origin = "new")

AcceptedPosts == SelectSeq(log, LAMBDA e : e.op = "POST" /\ e.status = 202)

\* the listed ids no accepted DELETE has carried: the n-th id goes with the
\* DELETE number (n-1) \div 50 + 1
Kept ==
    LET D == Entries("DELETE")
        keep(n) == LET k == ((n - 1) \div 50) + 1
                   IN  k > Len(D) \/ D[k].status # 202
    IN  {n \in 1..Len(ids) : keep(n)}

\* C17: once the rows are listed the table holds, at every moment of the run,
\* the old rows no accepted DELETE has removed yet followed by the rows of the
\* POSTs accepted so far: it is empty between an accepted purge and the first
\* accepted POST, partially purged between accepted DELETEs, and holds old and
\* new rows together when a DELETE was refused and a POST accepted.
C17_NotAtomic ==
    Listed =>
       LET D == Entries("DELETE")
       IN  /\ remote = RemoteOld \o RemoteNew
           /\ Len(RemoteOld) = Cardinality(Kept)
           /\ \A k \in 1..Len(RemoteOld) : RemoteOld[k].id \in {ids[n] : n \in Kept}
           /\ [k \in 1..Len(RemoteNew) |-> RemoteNew[k].cells] = Flatten(Bodies(AcceptedPosts))
           /\ (/\ pc = "insert"
               /\ AcceptedPosts = <<>>
               /\ \A k \in 1..Len(D) : D[k].status = 202) => remote = <<>>
           /\ (/\ pc = "delete"
               /\ D # <<>>
               /\ \A k \in 1..Len(D) : D[k].status = 202) =>
                  /\ remote = [n \in 1..(Len(ids) - 50 * Len(D)) |->
                                  [id |-> ids[n + 50 * Len(D)], origin |-> "old", cells |-> <<>>]]
                  /\ 0 < Len(remote)
                  /\ Len(remote) < Len(ids)
           /\ ((\E k \in 1..Len(D) : D[k].status # 202) /\ AcceptedPosts # <<>>) =>
                  RemoteOld # <<>> /\ RemoteNew # <<>>

\* partially purged: the first 50 of 120 rows are gone, the purge goes on
C17_Witness ==
    /\ pc = "delete"
    /\ Len(ids) = 120
    /\ Statuses(Entries("DELETE")) = <<202>>
    /\ Len(remote) = 70
    /\ remote[1].id = 51

\* empty: 120 rows purged, 25 rows to insert, none inserted yet
C17_WitnessEmpty ==
    /\ pc = "insert"
    /\ Len(ids) = 120
    /\ Len(filas_dicts) = 25
    /\ Ops("POST") = {}
    /\ remote = <<>>

\* old and new together during the insertion: a DELETE was refused
C17_WitnessBoth ==
    /\ pc = "insert"
    /\ Statuses(Entries("DELETE")) = <<202, 429, 202>>
    /\ Len(RemoteOld) = 50
    /\ Len(RemoteNew) = 10

----------------------------------------------------------------------------
\* C18: every wait of the insert phase is followed by another POST of the
\* same batch; a batch answered 429 on all 5 attempts has waited 1+2+4+8 = 15
\* in total and its fifth POST is not followed by a wait.
C18_WaitThenPost ==
    pc = "done" =>
       /\ \A p \in Ops("SLEEP") :
             /\ p + 1 <= Len(log)
             /\ log[p + 1].op = "POST"
             /\ log[p + 1].i = log[p].i
       /\ \A b \in PostedBatches :
             Statuses(PostsOf(b)) = <<429, 429, 429, 429, 429>> =>
                /\ SumEspera(SleepsOf(b)) = 15
                /\ Len(SleepsOf(b)) = 4

\* what the code does instead: the fifth 429 of a batch is followed by a wait
\* of 2^4 = 16 and no POST of the batch, 1+2+4+8+16 = 31 in total
C18_LastWait ==
    /\ pc = "done"
    /\ Len(filas_dicts) = 1
    /\ Statuses(PostsOf(0)) = <<429, 429, 429, 429, 429>>
    /\ SumEspera(SleepsOf(0)) = 31
    /\ LastOp = "SLEEP"
    /\ log[Len(log)].espera = 16
    /\ clock = 31

----------------------------------------------------------------------------
\* the extraction returned, with no row
ExtractedZero ==
    /\ \E p \in Ops("QUERY") : log[p].status = QueryReturned
    /\ filas_dicts = <<>>

\* C19: a run whose extraction returned zero rows never enters the insert
\* loop and never POSTs; when it ends it has listed the rows and issued all
\* ceil(N/50) DELETEs over the N listed ids, and if every DELETE was accepted
\* the remote table is empty.
C19_ZeroRows ==
    ExtractedZero =>
       /\ pc # "insert"
       /\ Ops("POST") = {}
       /\ Ops("SLEEP") = {}
       /\ pc = "done" =>
             /\ Listed
             /\ Len(Entries("DELETE")) = Ceil(Len(ids), 50)
             /\ Flatten(Bodies(Entries("DELETE"))) = ids
             /\ (\A p \in Ops("DELETE") : log[p].status = 202) => remote = <<>>

\* 120 old rows, nothing extracted: three accepted DELETEs, empty table
C19_Witness ==
    /\ ExtractedZero
    /\ pc = "done"
    /\ Len(ids) = 120
    /\ Statuses(Entries("DELETE")) = <<202, 202, 202>>
    /\ LastOp = "DELETE"
    /\ remote = <<>>

----------------------------------------------------------------------------
\* the ids some DELETE request of the run carried
DeletedIds ==
    UNION {{log[p].body[k] : k \in 1..Len(log[p].body)} : p \in Ops("DELETE")}

\* C20: the run lists the rows once; every id in every DELETE body is an id
\* of that listing, no DELETE comes after a POST, and no row inserted by the
\* run is the subject of one of its DELETEs.
C20_OwnListing ==
    /\ Cardinality(Ops("GET_ROWS")) <= 1
    /\ DeletedIds \subseteq {ids[n] : n \in 1..Len(ids)}
    /\ \A p \in Ops("DELETE") :
          /\ \E q \in Ops("GET_ROWS") : q < p /\ log[q].status = 200
          /\ \A q \in Ops("POST") : p < q
    /\ \A k \in 1..Len(remote) : remote[k].origin = "new" => remote[k].id \notin DeletedIds
    /\ \A d \in DeletedIds : d <= nextId - 1 - Inserted(log)

\* 120 rows listed and carried by three DELETEs, then 25 rows inserted with
\* ids above 120 that no DELETE named
C20_Witness ==
    /\ pc = "done"
    /\ Len(ids) = 120
    /\ DeletedIds = 1..120
    /\ Len(RemoteNew) = 25
    /\ \A k \in 1..Len(RemoteNew) : RemoteNew[k].id > 120

====
